---- MODULE Spec2Model ----
(***************************************************************************)
(* vicuno: the metadata aggregation core of src/src/lib.rs.                *)
(*                                                                         *)
(*   Library -> Album -> Track, the codec classifier (Codec::from_path),   *)
(*   the tag extractor (Track::from_file / Track::from_flac), the album    *)
(*   scan (Album::from_path, Album::genres) and the library build          *)
(*   (Library::from_dir, Library::keys, Library::albums).                  *)
(*                                                                         *)
(* Strings and paths are sequences of characters, a character being a      *)
(* one-character string; "<FF>" stands for a byte that is not valid UTF-8  *)
(* (an OsStr may hold one, a String may not) and "<FFFD>" for U+FFFD, the  *)
(* character to_string_lossy puts in its place.  Option<T> is a sequence   *)
(* of length 0 (None) or 1 (Some).                                         *)
(***************************************************************************)
EXTENDS Integers, Sequences, FiniteSets, TLC

VARIABLES
    \* -- the filesystem a library is built from (read only)
    root,       \* the path handed to Library::from_dir
    dirs,       \* the directories of the tree, each a sequence of names below root
    files,      \* the regular files: [dir, name, content]
    \* -- Library::from_dir
    pc,         \* "idle", "walk" (from_dir's loop), "scan" (Album::from_path's
                \* loop), "done" (Ok returned), "panic"
    walk,       \* from_dir's iterator: the directory entries still to visit
    albums,     \* Library::albums, the HashMap from key to Album
    cur,        \* the Album::from_path call in progress: key, dir, this, entries
    scans,      \* what Album::from_path returned for each directory visited
    logged,     \* the error! lines written: [key, err]
    extracted,  \* the paths handed to Track::from_file, in call order
    keysOut,    \* Option: what Library::keys returned
    albumsOut,  \* Option: what Library::albums returned
    \* -- one call of Track::from_file
    tpath,      \* the path argument
    tcontent,   \* what the tag reader finds in that file
    tresult,    \* the value returned (or the panic)
    tagReads,   \* number of calls of Tag::read_from_path made so far
    \* -- one call of Album::genres
    galbum,     \* the album
    genresOut   \* Option: what Album::genres returned

(***************************************************************************)
(* Bounds of the model.                                                    *)
(***************************************************************************)
\* Comments (NAME=value lines) in the comment block of one FLAC file.
MaxComments == 2
\* Regular files in the whole tree a library is built from.
MaxFiles == 2
\* Tracks of the album whose genres are taken, and GENRE values of one track.
MaxTracks == 2
MaxGenres == 2

(***************************************************************************)
(* Characters and strings.                                                 *)
(***************************************************************************)
\* The characters of the model in ascending byte order (the order of
\* str::cmp and OsStr::cmp); the replacement character sorts after ASCII.
Alphabet ==
    << "+", "-", ".", "/", "0", "3", "4", "7",
       "A", "B", "C", "F", "J", "L", "M", "P", "R",
       "a", "b", "c", "d", "e", "f", "g", "h", "j", "l", "m", "o", "p",
       "r", "s", "t", "u", "x", "<FFFD>", "<FF>" >>

OrdTable == [c \in {Alphabet[i] : i \in 1..Len(Alphabet)} |->
                CHOOSE i \in 1..Len(Alphabet) : Alphabet[i] = c]

Ord(c) == OrdTable[c]

\* <str as Ord>::lt : lexicographic on the bytes, a proper prefix first.
StrLess(a, b) ==
    \E i \in 1..(Len(b)) :
        /\ \A j \in 1..(i - 1) : j <= Len(a) /\ a[j] = b[j]
        /\ \/ i = Len(a) + 1
           \/ i <= Len(a) /\ Ord(a[i]) < Ord(b[i])

\* char::to_lowercase on the characters of the alphabet.
LowerChar(c) ==
    CASE c = "A" -> "a"
      [] c = "B" -> "b"
      [] c = "C" -> "c"
      [] c = "F" -> "f"
      [] c = "J" -> "j"
      [] c = "L" -> "l"
      [] c = "M" -> "m"
      [] c = "P" -> "p"
      [] c = "R" -> "r"
      [] OTHER -> c

\* str::to_lowercase
to_lowercase(s) == [i \in 1..Len(s) |-> LowerChar(s[i])]

\* OsStr::to_str : None when the bytes are not valid UTF-8.
to_str(s) == IF \E i \in 1..Len(s) : s[i] = "<FF>" THEN << >> ELSE << s >>

\* OsStr::to_string_lossy : invalid bytes become U+FFFD.
to_string_lossy(s) == [i \in 1..Len(s) |-> IF s[i] = "<FF>" THEN "<FFFD>" ELSE s[i]]

None == << >>
Some(v) == << v >>

\* Vec / slice helpers.
Range(s) == {s[i] : i \in 1..Len(s)}

RECURSIVE InsertSorted(_, _)
InsertSorted(x, s) ==
    IF s = << >> THEN << x >>
    ELSE IF StrLess(Head(s), x) \/ Head(s) = x
         THEN << Head(s) >> \o InsertSorted(x, Tail(s))
         ELSE << x >> \o s

\* slice::sort / Itertools::sorted on strings (stable insertion sort).
RECURSIVE SortStrs(_)
SortStrs(s) == IF s = << >> THEN << >> ELSE InsertSorted(Head(s), SortStrs(Tail(s)))

(***************************************************************************)
(* Paths.                                                                  *)
(***************************************************************************)
\* Index of the last occurrence of character c in s, 0 when there is none.
LastIndexOf(s, c) ==
    IF \E i \in 1..Len(s) : s[i] = c
    THEN CHOOSE i \in 1..Len(s) : s[i] = c /\ \A j \in (i + 1)..Len(s) : s[j] # c
    ELSE 0

\* Path::file_name : the last component of the path.
file_name(path) == SubSeq(path, LastIndexOf(path, "/") + 1, Len(path))

\* Path::extension : the part of the file name after its last dot; None when
\* there is no dot, or when the only dot is the first character.
extension(path) ==
    LET name == file_name(path)
        dot == LastIndexOf(name, ".")
    IN  IF name = << ".", "." >> \/ dot <= 1
        THEN None
        ELSE Some(SubSeq(name, dot + 1, Len(name)))

\* Path::join : a separator is added unless the base already ends with one.
join(base, name) ==
    IF base # << >> /\ base[Len(base)] = "/" THEN base \o name ELSE base \o << "/" >> \o name

(***************************************************************************)
(* Codec.                                                                  *)
(***************************************************************************)
Codecs == {"FLAC", "OPUS", "M4A", "MP3"}

\* Codec::from_path.  [panic, val]: panic is TRUE when to_str().unwrap()
\* is reached with an extension that is not valid UTF-8.
Codec_from_path(path) ==
    LET ext == extension(path)
    IN  IF ext = None THEN [panic |-> FALSE, val |-> None]
        ELSE IF to_str(ext[1]) = None THEN [panic |-> TRUE, val |-> None]
        ELSE LET s == to_lowercase(to_str(ext[1])[1])
             IN  [panic |-> FALSE,
                  val |-> CASE s = << "f", "l", "a", "c" >> -> Some("FLAC")
                            [] s = << "o", "p", "u", "s" >> -> Some("OPUS")
                            [] s = << "m", "4", "a" >> -> Some("M4A")
                            [] s = << "a", "a", "c" >> -> Some("M4A")
                            [] s = << "m", "p", "3" >> -> Some("MP3")
                            [] OTHER -> None]

(***************************************************************************)
(* LibraryError.                                                           *)
(***************************************************************************)
UnsupportedCodec(codec) == [err |-> "UnsupportedCodec", codec |-> codec]
InvalidFormat(path) == [err |-> "InvalidFormat", path |-> path]
InvalidFlac == [err |-> "InvalidFlac"]

\* Result<T, LibraryError>, with the panic of an unwrap()/expect() as a third
\* outcome; reads counts the calls of Tag::read_from_path made on the way.
Ok(v, n) == [kind |-> "Ok", val |-> v, reads |-> n]
Err(e, n) == [kind |-> "Err", val |-> e, reads |-> n]
Panic(n) == [kind |-> "Panic", val |-> << >>, reads |-> n]
NoResult == [kind |-> "None", val |-> << >>, reads |-> 0]

(***************************************************************************)
(* Track.                                                                  *)
(***************************************************************************)
\* Track::new
Track_new ==
    [file |-> None, file_codec |-> None,
     title |-> None, album |-> None, artist |-> << >>, album_artist |-> None,
     composer |-> << >>, track_number |-> None, track_total |-> None,
     disc_number |-> None, disc_total |-> None, date |-> None, www |-> None,
     genre |-> << >>, copyright |-> None, encoded_by |-> None, comment |-> None,
     modified |-> FALSE, discarded |-> << >>]

IsDigit(c) == c \in {"0", "3", "4", "7"}

DigitVal(c) == CASE c = "0" -> 0 [] c = "3" -> 3 [] c = "4" -> 4 [] c = "7" -> 7

RECURSIVE DigitsVal(_)
DigitsVal(s) == IF s = << >> THEN 0 ELSE DigitsVal(SubSeq(s, 1, Len(s) - 1)) * 10 + DigitVal(s[Len(s)])

\* <usize as FromStr>::from_str : an optional '+', then one or more decimal
\* digits.  (The strings of the model are too short to overflow a usize.)
parse(s) ==
    LET digits == IF s # << >> /\ s[1] = "+" THEN Tail(s) ELSE s
    IN  IF digits = << >> \/ \E i \in 1..Len(digits) : ~IsDigit(digits[i])
        THEN None
        ELSE Some(DigitsVal(digits))

\* Mutant of get_str: the key is recorded whenever a value is stored (> 0).
get_str_discard_any(comments, key) ==
    IF key \in DOMAIN comments
    THEN [val |-> Some(comments[key][1]),
          disc |-> IF Len(comments[key]) > 0 THEN << key >> ELSE << >>]
    ELSE [val |-> None, disc |-> << >>]

\* The closure get_str of Track::from_flac: the first value stored under key,
\* and the key itself for `discarded` when more than one value is stored.
get_str(comments, key) ==
    IF key \in DOMAIN comments
    THEN [val |-> Some(comments[key][1]),
          disc |-> IF Len(comments[key]) > 1 THEN << key >> ELSE << >>]
    ELSE [val |-> None, disc |-> << >>]

\* The closure get_strs of Track::from_flac.
get_strs(comments, key) == IF key \in DOMAIN comments THEN comments[key] ELSE << >>

\* The closure get_num of Track::from_flac.
get_num(comments, key) ==
    LET s == get_str(comments, key)
    IN  [val |-> IF s.val = None THEN None ELSE parse(s.val[1]), disc |-> s.disc]

\* Track::from_flac.  content is what Tag::read_from_path finds at path:
\* kind "Invalid" (a metaflac::Error), "NoBlock" (vorbis_comments() is None)
\* or "Block" with comments, a map from tag name to its values.  discarded
\* is filled in the order the struct's fields are evaluated.
Track_from_flac(path, content) ==
    IF content.kind = "Invalid" THEN Err(InvalidFlac, 1)
    ELSE IF content.kind = "Block"
    THEN LET c == content.comments
             title == get_str(c, "TITLE")
             album == get_str(c, "ALBUM")
             album_artist == get_str(c, "ALBUMARTIST")
             track_number == get_num(c, "TRACKNUMBER")
             track_total == get_num(c, "TRACKTOTAL")
             disc_number == get_num(c, "DISCNUMBER")
             disc_total == get_num(c, "DISCTOTAL")
             date == get_num(c, "DATE")
             www == get_str(c, "CONTACT")
             copyright == get_str(c, "COPYRIGHT")
             encoded_by == get_str(c, "ENCODED-BY")
             comment == get_str(c, "DESCRIPTION")
         IN  Ok([file |-> Some(path), file_codec |-> Some("FLAC"),
                 title |-> title.val,
                 album |-> album.val,
                 artist |-> get_strs(c, "ARTIST"),
                 album_artist |-> album_artist.val,
                 composer |-> get_strs(c, "COMPOSER"),
                 track_number |-> track_number.val,
                 track_total |-> track_total.val,
                 disc_number |-> disc_number.val,
                 disc_total |-> disc_total.val,
                 date |-> date.val,
                 www |-> www.val,
                 genre |-> get_strs(c, "GENRE"),
                 copyright |-> copyright.val,
                 encoded_by |-> encoded_by.val,
                 comment |-> comment.val,
                 modified |-> FALSE,
                 discarded |-> title.disc \o album.disc \o album_artist.disc
                               \o track_number.disc \o track_total.disc
                               \o disc_number.disc \o disc_total.disc \o date.disc
                               \o www.disc \o copyright.disc \o encoded_by.disc
                               \o comment.disc], 1)
    ELSE Ok(Track_new, 1)

\* Mutant of Track::from_file: a codec without an extractor yields an empty
\* Track instead of UnsupportedCodec.
Track_from_file_lenient(path, content) ==
    LET codec == Codec_from_path(path)
    IN  IF codec.panic THEN Panic(0)
        ELSE IF codec.val # None
        THEN IF codec.val[1] = "FLAC"
             THEN Track_from_flac(path, content)
             ELSE Ok(Track_new, 0)
        ELSE Err(InvalidFormat(path), 0)

\* Track::from_file
Track_from_file(path, content) ==
    LET codec == Codec_from_path(path)
    IN  IF codec.panic THEN Panic(0)
        ELSE IF codec.val # None
        THEN IF codec.val[1] = "FLAC"
             THEN Track_from_flac(path, content)
             ELSE Err(UnsupportedCodec(codec.val[1]), 0)
        ELSE Err(InvalidFormat(path), 0)

\* Track::is_empty
is_empty(t) ==
    /\ t.title = None /\ t.album = None /\ t.artist = << >>
    /\ t.album_artist = None /\ t.composer = << >>
    /\ t.track_number = None /\ t.track_total = None
    /\ t.disc_number = None /\ t.disc_total = None /\ t.date = None
    /\ t.www = None /\ t.genre = << >> /\ t.copyright = None
    /\ t.encoded_by = None /\ t.comment = None

(***************************************************************************)
(* Inputs of the tag extractor.                                            *)
(***************************************************************************)
\* The tag names Track::from_flac looks up.
SingleTags ==
    {"TITLE", "ALBUM", "ALBUMARTIST", "CONTACT", "COPYRIGHT", "ENCODED-BY",
     "DESCRIPTION"}
NumTags == {"TRACKNUMBER", "TRACKTOTAL", "DISCNUMBER", "DISCTOTAL", "DATE"}
MultiTags == {"ARTIST", "COMPOSER", "GENRE"}
TagNames == SingleTags \cup NumTags \cup MultiTags

\* Values of a comment: "A" (no number), "7" and "+7" (numbers).
TagValues == { << "A" >>, << "7" >>, << "+", "7" >> }

\* The comment block a tag reader builds from the NAME=value lines of a file:
\* each name maps to its values in the order they are stored.
RECURSIVE CommentBlock(_)
CommentBlock(lines) ==
    IF lines = << >> THEN << >>
    ELSE LET m == CommentBlock(SubSeq(lines, 1, Len(lines) - 1))
             l == lines[Len(lines)]
         IN  IF l[1] \in DOMAIN m
             THEN [m EXCEPT ![l[1]] = Append(@, l[2])]
             ELSE m @@ (l[1] :> << l[2] >>)

Unreadable == [kind |-> "Invalid", comments |-> << >>]
NoBlock == [kind |-> "NoBlock", comments |-> << >>]
Block(comments) == [kind |-> "Block", comments |-> comments]

\* What a file may hold: no readable tag, no comment block, or a block of
\* at most max NAME=value lines.
FileContents(max) ==
    {Unreadable, NoBlock} \cup
    {Block(CommentBlock(lines)) :
        lines \in UNION {[1..n -> TagNames \X TagValues] : n \in 0..max}}

\* Paths handed to Track::from_file: every row of the codec table, in lower
\* and upper case, and the ways an extension can be missing or unknown.
TrackPaths ==
    { << "m", "/", "a", ".", "f", "l", "a", "c" >>,
      << "m", "/", "B", ".", "F", "L", "A", "C" >>,
      << "m", "/", "a", ".", "b", ".", "f", "l", "a", "c" >>,
      << "m", "/", "c", ".", "m", "p", "3" >>,
      << "m", "/", "c", ".", "M", "P", "3" >>,
      << "m", "/", "o", ".", "o", "p", "u", "s" >>,
      << "m", "/", "g", ".", "a", "a", "c" >>,
      << "m", "/", "h", ".", "m", "4", "a" >>,
      << "m", "/", "d", ".", "t", "x", "t" >>,
      << "m", "/", "e" >>,
      << "m", "/", "e", "." >>,
      << "m", ".", "d", "/", "f", "l", "a", "c" >>,
      << "m", "/", ".", "f", "l", "a", "c" >>,
      << "m", "/", "x", ".", "<FF>" >> }

(***************************************************************************)
(* The filesystem.  Directories are readable and do not change during a    *)
(* scan, so every item of a WalkDir iterator is Ok and the e.unwrap() of   *)
(* the two loops returns its entry.                                        *)
(***************************************************************************)
RootDir == << >>

\* PathBuf of a directory of the tree: WalkDir yields the root as given and
\* every other entry as its parent's path joined with its name.
RECURSIVE DirPath(_)
DirPath(d) ==
    IF d = RootDir THEN root
    ELSE join(DirPath(SubSeq(d, 1, Len(d) - 1)), d[Len(d)])

IsSubdir(d, name) == Append(d, name) \in dirs

\* The names of the immediate entries of directory d.
ChildNames(d) ==
    {x[Len(x)] : x \in {y \in dirs : Len(y) = Len(d) + 1 /\ SubSeq(y, 1, Len(d)) = d}}
        \cup {f.name : f \in {g \in files : g.dir = d}}

\* Some order in which read_dir may list the names S.
RECURSIVE Listing(_)
Listing(S) ==
    IF S = {} THEN << >>
    ELSE LET x == CHOOSE y \in S : TRUE IN << x >> \o Listing(S \ {x})

ReadDir(d) == Listing(ChildNames(d))

DirEntry(d, depth) ==
    [path |-> DirPath(d), is_dir |-> TRUE, dir |-> d, name |-> << >>, depth |-> depth]

FileEntry(d, name, depth) ==
    [path |-> join(DirPath(d), name), is_dir |-> FALSE, dir |-> d, name |-> name,
     depth |-> depth]

\* WalkDir::new(d).sort_by_file_name(), with .max_depth(n) when max_depth is
\* Some(n) and .filter_entry(|e| e.file_type().is_dir()) when dirs_only:
\* the directory itself, then its entries in ascending file name order, each
\* directory followed by its own entries.
RECURSIVE WalkDir(_, _, _, _), WalkEntries(_, _, _, _, _)
WalkDir(d, depth, max_depth, dirs_only) ==
    << DirEntry(d, depth) >> \o
        ( IF max_depth # None /\ depth >= max_depth[1]
          THEN << >>
          ELSE WalkEntries(d, SortStrs(ReadDir(d)), depth + 1, max_depth, dirs_only) )

WalkEntries(d, names, depth, max_depth, dirs_only) ==
    IF names = << >> THEN << >>
    ELSE ( IF IsSubdir(d, Head(names))
           THEN WalkDir(Append(d, Head(names)), depth, max_depth, dirs_only)
           ELSE IF dirs_only THEN << >>
           ELSE << FileEntry(d, Head(names), depth) >> )
         \o WalkEntries(d, Tail(names), depth, max_depth, dirs_only)

\* What the tag reader finds in the file at an entry.
ContentOf(e) == (CHOOSE f \in files : f.dir = e.dir /\ f.name = e.name).content

(***************************************************************************)
(* Library.                                                                *)
(***************************************************************************)
\* The components of a path: Path == Path compares these, so that a
\* trailing separator makes no difference.
RECURSIVE Components(_)
Components(p) ==
    IF p = << >> THEN << >>
    ELSE LET cut == LastIndexOf(p, "/")
             last == SubSeq(p, cut + 1, Len(p))
             rest == IF cut = 0 THEN << >> ELSE Components(SubSeq(p, 1, cut - 1))
         IN  IF last = << >> THEN rest ELSE Append(rest, last)

\* str::strip_prefix
strip_prefix(s, prefix) ==
    IF Len(prefix) <= Len(s) /\ SubSeq(s, 1, Len(prefix)) = prefix
    THEN Some(SubSeq(s, Len(prefix) + 1, Len(s)))
    ELSE None

\* Library::key_relative.  [panic, val]: panic is TRUE when
\* expect("unexpected key outside library root") is reached with None.
key_relative(lib_root, key) ==
    IF Components(key) = Components(lib_root)
    THEN [panic |-> FALSE, val |-> << "." >>]
    ELSE LET r == to_string_lossy(lib_root) \o << "/" >>
             k == strip_prefix(to_string_lossy(key), r)
         IN  IF k = None THEN [panic |-> TRUE, val |-> << >>]
             ELSE [panic |-> FALSE, val |-> k[1]]

\* Album::new
Album_new(path) == [dir |-> path, tracks |-> << >>]

\* Mutant of Album_entries: no max_depth(1).
Album_entries_deep(d) == WalkDir(d, 0, None, FALSE)

\* The iterator of Album::from_path: the directory and its immediate entries.
Album_entries(d) == WalkDir(d, 0, Some(1), FALSE)

\* The iterator of Library::from_dir: every directory below and including root.
Library_entries == WalkDir(RootDir, 0, None, TRUE)

Step(kind, this, called, reads, err) ==
    [kind |-> kind, this |-> this, called |-> called, reads |-> reads, err |-> err]

\* Mutant of Album_step: a file whose extraction fails is skipped and the
\* scan goes on (no ? on add_track).
Album_step_skip(this, e) ==
    IF e.is_dir THEN Step("Continue", this, << >>, 0, None)
    ELSE LET codec == Codec_from_path(e.path)
         IN  IF codec.panic THEN Step("Panic", this, << >>, 0, None)
             ELSE IF codec.val = None THEN Step("Continue", this, << >>, 0, None)
             ELSE LET r == Track_from_file(e.path, ContentOf(e))
                  IN  CASE r.kind = "Ok" ->
                             Step("Continue", [this EXCEPT !.tracks = Append(@, r.val)],
                                  << e.path >>, r.reads, None)
                        [] r.kind = "Err" ->
                             Step("Continue", this, << e.path >>, r.reads, None)
                        [] OTHER -> Step("Panic", this, << e.path >>, r.reads, None)

\* One iteration of the loop of Album::from_path on entry e, add_track
\* included: "Continue" with the album as it is after it, "Err" when the ?
\* of add_track returns the error of Track::from_file, "Panic".  called is
\* the path handed to Track::from_file, if any.
Album_step(this, e) ==
    IF e.is_dir THEN Step("Continue", this, << >>, 0, None)
    ELSE LET codec == Codec_from_path(e.path)
         IN  IF codec.panic THEN Step("Panic", this, << >>, 0, None)
             ELSE IF codec.val = None THEN Step("Continue", this, << >>, 0, None)
             ELSE LET r == Track_from_file(e.path, ContentOf(e))
                  IN  CASE r.kind = "Ok" ->
                             Step("Continue", [this EXCEPT !.tracks = Append(@, r.val)],
                                  << e.path >>, r.reads, None)
                        [] r.kind = "Err" ->
                             Step("Err", this, << e.path >>, r.reads, Some(r.val))
                        [] OTHER -> Step("Panic", this, << e.path >>, r.reads, None)

\* Album::len
Album_len(album) == Len(album.tracks)

\* Iterator::flatten over the genres() of the tracks, in track order.
RECURSIVE FlatGenres(_)
FlatGenres(tracks) ==
    IF tracks = << >> THEN << >> ELSE Head(tracks).genre \o FlatGenres(Tail(tracks))

\* Mutant of hs_insert: a Vec, which keeps duplicates.
hs_insert_dup(hs, g) == Append(hs, g)

\* HashSet::insert, the set held as the sequence of its distinct elements.
hs_insert(hs, g) == IF g \in Range(hs) THEN hs ELSE Append(hs, g)

\* The fold of Album::genres: every genre inserted into one HashSet.
RECURSIVE genres_fold(_, _)
genres_fold(hs, gs) ==
    IF gs = << >> THEN hs ELSE genres_fold(hs_insert(hs, Head(gs)), Tail(gs))

\* The orders in which HashSet::drain may yield the elements of hs.
DrainOrders(hs) ==
    {[i \in 1..Len(hs) |-> hs[p[i]]] :
        p \in {q \in [1..Len(hs) -> 1..Len(hs)] : Range(q) = 1..Len(hs)}}

\* Album::genres, the set draining in drain_order.
Album_genres(album, drain_order) == SortStrs(drain_order)

\* HashMap::insert
HashMap_insert(m, k, v) == [x \in DOMAIN m \cup {k} |-> IF x = k THEN v ELSE m[x]]

\* Mutant of InsertAlbum: no check of album.len().
InsertAlbumAlways(m, key, album) == HashMap_insert(m, key, album)

\* The Ok arm of from_dir's match: the album is kept when it has a track.
InsertAlbum(m, key, album) ==
    IF Album_len(album) > 0 THEN HashMap_insert(m, key, album) ELSE m

\* The orders in which a HashMap may iterate over its keys.
HashOrders(m) ==
    {s \in [1..Cardinality(DOMAIN m) -> DOMAIN m] : Range(s) = DOMAIN m}

\* Mutant of Library::keys: no keys.sort().
Library_keys_unsorted(m, hash_order) == hash_order

\* Library::keys, the map iterating in hash_order.
Library_keys(m, hash_order) == SortStrs(hash_order)

\* Library::albums
Library_albums(m, hash_order) ==
    LET keys == Library_keys(m, hash_order)
    IN  [i \in 1..Len(keys) |-> m[keys[i]]]

NoCall == [key |-> << >>, dir |-> RootDir, this |-> Album_new(<< >>), entries |-> << >>]

(***************************************************************************)
(* Inputs of the library build.                                            *)
(***************************************************************************)
\* The path handed to from_dir, without and with a trailing separator.
RootPaths == { << "m" >>, << "m", "/" >> }

\* The trees: below the root, directories "A", "A/s" and "A-".  WalkDir
\* visits ".", "A", "A/s", "A-"; the keys sort ".", "A", "A-", "A/s".
DirA == << << "A" >> >>
DirAs == << << "A" >>, << "s" >> >>
DirAm == << << "A", "-" >> >>
DirTrees ==
    { {RootDir}, {RootDir, DirA}, {RootDir, DirAm}, {RootDir, DirA, DirAm},
      {RootDir, DirA, DirAs}, {RootDir, DirA, DirAs, DirAm} }

\* A file's comment block in the trees: two genres and two titles.
LibBlock ==
    Block(CommentBlock(<< << "GENRE", << "7" >> >>, << "GENRE", << "A" >> >>,
                          << "TITLE", << "A" >> >>, << "TITLE", << "7" >> >> >>))

\* Files that may lie in a directory: two FLAC files (whose names sort
\* "B.FLAC" before "a.flac"), the MP3 file "c.MP3", a text file and a file
\* whose extension is not valid UTF-8.
FlacNames == { << "a", ".", "f", "l", "a", "c" >>, << "B", ".", "F", "L", "A", "C" >> }
OtherNames ==
    { << "c", ".", "M", "P", "3" >>, << "d", ".", "t", "x", "t" >>, << "x", ".", "<FF>" >> }

\* What a file of that name may hold; only a FLAC file is ever read.
ContentsFor(name) ==
    IF name \in FlacNames THEN {Unreadable, NoBlock, LibBlock} ELSE {NoBlock}

\* The sets of exactly k files lying in directory d.
FilesIn(d, k) ==
    UNION { { {[dir |-> d, name |-> x, content |-> c[x]] : x \in N} :
                c \in {g \in [N -> {Unreadable, NoBlock, LibBlock}] :
                           \A x \in N : g[x] \in ContentsFor(x)} } :
            N \in {M \in SUBSET (FlacNames \cup OtherNames) : Cardinality(M) = k} }

\* The sets of at most n files lying in the directories ds.
RECURSIVE FileSets(_, _)
FileSets(ds, n) ==
    IF ds = {} THEN {{}}
    ELSE LET d == CHOOSE x \in ds : TRUE
         IN  UNION { {F \cup G : F \in FilesIn(d, k), G \in FileSets(ds \ {d}, n - k)} :
                     k \in 0..n }

(***************************************************************************)
(* Specification Spec: one call of Library::from_dir, then keys() and      *)
(* albums() on the library it returned.                                    *)
(***************************************************************************)
fsVars == << root, dirs, files >>
libVars == << pc, walk, albums, cur, scans, logged, extracted, keysOut, albumsOut >>
trackVars == << tpath, tcontent, tresult >>
genreVars == << galbum, genresOut >>
vars == << fsVars, libVars, trackVars, tagReads, genreVars >>

TrackIdle ==
    /\ tpath = << >>
    /\ tcontent = NoBlock
    /\ tresult = NoResult

GenresIdle ==
    /\ galbum = Album_new(<< >>)
    /\ genresOut = None

\* Library::new, and from_dir about to enter its loop.
Init ==
    /\ dirs \in DirTrees
    /\ files \in FileSets(dirs, MaxFiles)
    /\ root \in RootPaths
    /\ pc = "walk"
    /\ walk = Library_entries
    /\ albums = << >>
    /\ cur = NoCall
    /\ scans = << >>
    /\ logged = << >>
    /\ extracted = << >>
    /\ keysOut = None
    /\ albumsOut = None
    /\ tagReads = 0
    /\ TrackIdle
    /\ GenresIdle

\* from_dir takes the next directory: key_relative, then Album::from_path
\* creates the album and its iterator.
VisitDir ==
    /\ pc = "walk"
    /\ walk # << >>
    /\ LET entry == Head(walk)
           key == key_relative(root, entry.path)
       IN  IF key.panic
           THEN /\ pc' = "panic"
                /\ UNCHANGED << walk, cur >>
           ELSE /\ pc' = "scan"
                /\ walk' = Tail(walk)
                /\ cur' = [key |-> key.val, dir |-> entry.dir,
                           this |-> Album_new(entry.path),
                           entries |-> Album_entries(entry.dir)]
    /\ UNCHANGED << fsVars, albums, scans, logged, extracted, keysOut, albumsOut,
                    trackVars, tagReads, genreVars >>

\* One iteration of the loop of Album::from_path.  On an error from_path
\* returns it and from_dir logs it under the key and goes on.
ScanEntry ==
    /\ pc = "scan"
    /\ cur.entries # << >>
    /\ LET step == Album_step(cur.this, Head(cur.entries))
       IN  /\ extracted' = extracted \o step.called
           /\ tagReads' = tagReads + step.reads
           /\ CASE step.kind = "Continue" ->
                     /\ cur' = [cur EXCEPT !.this = step.this, !.entries = Tail(@)]
                     /\ UNCHANGED << pc, scans, logged >>
                [] step.kind = "Err" ->
                     /\ scans' = scans @@ (cur.dir :> Err(step.err[1], 0))
                     /\ logged' = Append(logged, [key |-> cur.key, err |-> step.err[1]])
                     /\ cur' = NoCall
                     /\ pc' = "walk"
                [] OTHER ->
                     /\ pc' = "panic"
                     /\ UNCHANGED << cur, scans, logged >>
    /\ UNCHANGED << fsVars, walk, albums, keysOut, albumsOut, trackVars, genreVars >>

\* Album::from_path returns Ok(this); from_dir inserts the album if it has
\* a track.
ScanDone ==
    /\ pc = "scan"
    /\ cur.entries = << >>
    /\ scans' = scans @@ (cur.dir :> Ok(cur.this, 0))
    /\ albums' = InsertAlbum(albums, cur.key, cur.this)
    /\ cur' = NoCall
    /\ pc' = "walk"
    /\ UNCHANGED << fsVars, walk, logged, extracted, keysOut, albumsOut, trackVars,
                    tagReads, genreVars >>

\* from_dir returns Ok(this).
Finish ==
    /\ pc = "walk"
    /\ walk = << >>
    /\ pc' = "done"
    /\ UNCHANGED << fsVars, walk, albums, cur, scans, logged, extracted, keysOut,
                    albumsOut, trackVars, tagReads, genreVars >>

\* Library::keys on the library returned.
Keys ==
    /\ pc = "done"
    /\ \E order \in HashOrders(albums) : keysOut' = Some(Library_keys(albums, order))
    /\ UNCHANGED << fsVars, pc, walk, albums, cur, scans, logged, extracted, albumsOut,
                    trackVars, tagReads, genreVars >>

\* Library::albums on the library returned.
Albums ==
    /\ pc = "done"
    /\ \E order \in HashOrders(albums) : albumsOut' = Some(Library_albums(albums, order))
    /\ UNCHANGED << fsVars, pc, walk, albums, cur, scans, logged, extracted, keysOut,
                    trackVars, tagReads, genreVars >>

Next == VisitDir \/ ScanEntry \/ ScanDone \/ Finish \/ Keys \/ Albums

Spec == Init /\ [][Next]_vars

(***************************************************************************)
(* Specification SpecTrack: one call of Track::from_file.                  *)
(***************************************************************************)
LibIdle ==
    /\ root = << >>
    /\ dirs = {}
    /\ files = {}
    /\ pc = "idle"
    /\ walk = << >>
    /\ albums = << >>
    /\ cur = NoCall
    /\ scans = << >>
    /\ logged = << >>
    /\ extracted = << >>
    /\ keysOut = None
    /\ albumsOut = None

InitTrack ==
    /\ tpath \in TrackPaths
    /\ tcontent \in FileContents(MaxComments)
    /\ tresult = NoResult
    /\ tagReads = 0
    /\ LibIdle
    /\ GenresIdle

FromFile ==
    /\ tresult = NoResult
    /\ tresult' = Track_from_file(tpath, tcontent)
    /\ tagReads' = tagReads + tresult'.reads
    /\ UNCHANGED << tpath, tcontent, fsVars, libVars, genreVars >>

NextTrack == FromFile

SpecTrack == InitTrack /\ [][NextTrack]_vars

(***************************************************************************)
(* Specification SpecGenres: one call of Album::genres.                    *)
(***************************************************************************)
\* Genre strings: "J" < "R" < "j" (equality is case sensitive).
GenreNames == { << "J" >>, << "R" >>, << "j" >> }

GenreLists(max) == UNION {[1..n -> GenreNames] : n \in 0..max}

AlbumPath == << "m", "/", "A" >>

\* The track of a FLAC file whose comment block holds the GENRE values gs.
GenreTrack(gs) ==
    Track_from_flac(join(AlbumPath, << "a", ".", "f", "l", "a", "c" >>),
                    Block(CommentBlock([i \in 1..Len(gs) |-> << "GENRE", gs[i] >>]))).val

\* The albums of at most max_tracks tracks with at most max_genres genres.
GenreAlbums(max_tracks, max_genres) ==
    {[dir |-> AlbumPath, tracks |-> [i \in 1..Len(gl) |-> GenreTrack(gl[i])]] :
        gl \in UNION {[1..n -> GenreLists(max_genres)] : n \in 0..max_tracks}}

InitGenres ==
    /\ galbum \in GenreAlbums(MaxTracks, MaxGenres)
    /\ genresOut = None
    /\ tagReads = 0
    /\ LibIdle
    /\ TrackIdle

Genres ==
    /\ genresOut = None
    /\ \E order \in DrainOrders(genres_fold(<< >>, FlatGenres(galbum.tracks))) :
           genresOut' = Some(Album_genres(galbum, order))
    /\ UNCHANGED << galbum, fsVars, libVars, trackVars, tagReads >>

NextGenres == Genres

SpecGenres == InitGenres /\ [][NextGenres]_vars

(***************************************************************************)
(* Properties.  What they say of the tree is read off `dirs` and `files`,  *)
(* not off the state of the build.                                         *)
(***************************************************************************)
\* The key of directory d: its names joined by "/", "." for the root.
RECURSIVE KeyOf(_)
KeyOf(d) ==
    IF d = RootDir THEN << "." >>
    ELSE IF Len(d) = 1 THEN d[1]
    ELSE KeyOf(SubSeq(d, 1, Len(d) - 1)) \o << "/" >> \o d[Len(d)]

\* The extensions of the codec table, and those without an extractor.
TableExts ==
    { << "f", "l", "a", "c" >>, << "o", "p", "u", "s" >>, << "m", "4", "a" >>,
      << "a", "a", "c" >>, << "m", "p", "3" >> }
UnsupportedExts == TableExts \ { << "f", "l", "a", "c" >> }

\* The lower-cased extension of a path; None when it has none.
LowerExt(path) ==
    IF extension(path) = None THEN None ELSE Some(to_lowercase(extension(path)[1]))

HasExtIn(path, exts) == LowerExt(path) # None /\ LowerExt(path)[1] \in exts

\* The codec the table gives for a lower-cased extension.
TableCodec(ext) ==
    CASE ext = << "f", "l", "a", "c" >> -> "FLAC"
      [] ext = << "o", "p", "u", "s" >> -> "OPUS"
      [] ext = << "m", "p", "3" >> -> "MP3"
      [] OTHER -> "M4A"

\* The audio files lying directly in directory d, and the path of a file.
AudioFiles(d) == {f \in files : f.dir = d /\ HasExtIn(f.name, TableExts)}
PathOf(f) == join(DirPath(f.dir), f.name)
Extraction(f) == Track_from_file(PathOf(f), f.content)

\* An audio file of the same directory, earlier in file name order, whose
\* extraction fails.
EarlierFailure(f) ==
    \E g \in AudioFiles(f.dir) : StrLess(g.name, f.name) /\ Extraction(g).kind = "Err"

Count(seq, x) == Cardinality({i \in 1..Len(seq) : seq[i] = x})

Ascending(seq) == \A i \in 1..(Len(seq) - 1) : StrLess(seq[i], seq[i + 1])

\* C1: keys() returns every key of the album map exactly once, in strictly
\* ascending lexical order, and albums()[i] is the album stored under
\* keys()[i].
C1_KeysSorted ==
    /\ keysOut # None =>
          /\ Range(keysOut[1]) = DOMAIN albums
          /\ Len(keysOut[1]) = Cardinality(DOMAIN albums)
          /\ Ascending(keysOut[1])
    /\ keysOut # None /\ albumsOut # None =>
          /\ Len(albumsOut[1]) = Len(keysOut[1])
          /\ \A i \in 1..Len(keysOut[1]) : albumsOut[1][i] = albums[keysOut[1][i]]

\* C1 witness: keys() and albums() have run on a library in which "A/s" was
\* inserted before "A-", which sorts first.
C1_Witness ==
    /\ keysOut # None /\ albumsOut # None
    /\ {KeyOf(DirAs), KeyOf(DirAm)} \subseteq DOMAIN albums

\* C2: from_dir never aborts: it returns Ok whatever the tree and the
\* extraction outcomes, and the library returned holds a directory exactly
\* when that directory's own scan succeeded with at least one track.
C2_NeverAborts ==
    /\ pc # "panic"
    /\ pc = "done" =>
          \A d \in dirs :
              KeyOf(d) \in DOMAIN albums
                  <=> /\ AudioFiles(d) # {}
                      /\ \A f \in AudioFiles(d) : Extraction(f).kind = "Ok"

\* C3: every album in the album map has at least one track, in every state
\* of the build.
C3_NoEmptyAlbum == \A k \in DOMAIN albums : Len(albums[k].tracks) >= 1

\* C3 witness: a scan has returned an album without tracks, and the map
\* holds an album.
C3_Witness ==
    /\ \E d \in DOMAIN scans : scans[d].kind = "Ok" /\ scans[d].val.tracks = << >>
    /\ DOMAIN albums # {}

\* The field of a Track that Track::from_flac fills from a tag.
FieldOf(t, tag) ==
    CASE tag = "TITLE" -> t.title
      [] tag = "ALBUM" -> t.album
      [] tag = "ARTIST" -> t.artist
      [] tag = "ALBUMARTIST" -> t.album_artist
      [] tag = "COMPOSER" -> t.composer
      [] tag = "TRACKNUMBER" -> t.track_number
      [] tag = "TRACKTOTAL" -> t.track_total
      [] tag = "DISCNUMBER" -> t.disc_number
      [] tag = "DISCTOTAL" -> t.disc_total
      [] tag = "DATE" -> t.date
      [] tag = "CONTACT" -> t.www
      [] tag = "GENRE" -> t.genre
      [] tag = "COPYRIGHT" -> t.copyright
      [] tag = "ENCODED-BY" -> t.encoded_by
      [] tag = "DESCRIPTION" -> t.comment

\* C4: from a comment block, every single-valued field is the first value
\* stored under its tag (parsed, for the numeric ones), discarded holds a
\* tag exactly when it is single-valued and has more than one value, and the
\* multi-valued fields keep all values in stored order.
C4_FirstValueAndDiscarded ==
    tresult.kind = "Ok" /\ tcontent.kind = "Block" =>
        LET c == tcontent.comments
            t == tresult.val
        IN  /\ \A tag \in SingleTags :
                  FieldOf(t, tag) = IF tag \in DOMAIN c THEN Some(c[tag][1]) ELSE None
            /\ \A tag \in NumTags :
                  FieldOf(t, tag) = IF tag \in DOMAIN c THEN parse(c[tag][1]) ELSE None
            /\ \A tag \in MultiTags :
                  FieldOf(t, tag) = IF tag \in DOMAIN c THEN c[tag] ELSE << >>
            /\ Range(t.discarded) \subseteq TagNames
            /\ \A tag \in TagNames :
                  tag \in Range(t.discarded)
                      <=> /\ tag \in SingleTags \cup NumTags
                          /\ tag \in DOMAIN c
                          /\ Len(c[tag]) > 1

\* C4 witness: a track read from a block in which a single-valued tag holds
\* two different values.
C4_Witness ==
    /\ tresult.kind = "Ok" /\ tcontent.kind = "Block"
    /\ \E tag \in SingleTags \cup NumTags :
          /\ tag \in DOMAIN tcontent.comments
          /\ Len(tcontent.comments[tag]) = 2
          /\ tcontent.comments[tag][1] # tcontent.comments[tag][2]
          /\ tag \in Range(tresult.val.discarded)

\* C5: from_file on an .opus, .m4a, .aac or .mp3 path returns
\* UnsupportedCodec with that codec, and on a path whose extension is
\* missing or not in the codec table returns InvalidFormat with that path;
\* the tag reader is not invoked.
C5_FromFileErrors ==
    tresult # NoResult =>
        /\ HasExtIn(tpath, UnsupportedExts) =>
              /\ tresult = Err(UnsupportedCodec(TableCodec(LowerExt(tpath)[1])), 0)
              /\ tagReads = 0
        /\ ~HasExtIn(tpath, TableExts) =>
              /\ tresult = Err(InvalidFormat(tpath), 0)
              /\ tagReads = 0

\* C6: every Track a successful extraction returns has its path set to the
\* file's path and its codec set to the resolved codec, also when the file
\* has no comment block.
C6_PathAndCodecSet ==
    tresult.kind = "Ok" =>
        /\ tresult.val.file = Some(tpath)
        /\ tresult.val.file_codec = Some(TableCodec(LowerExt(tpath)[1]))

\* C7: genres() is the union of the tracks' genre lists, each distinct
\* string once, in strictly ascending lexical order (and so the same for
\* every order of the tracks and of the genres within a track); empty when
\* no track has a genre.
C7_GenresSortedUnion ==
    genresOut # None =>
        /\ Range(genresOut[1])
              = UNION {Range(galbum.tracks[i].genre) : i \in 1..Len(galbum.tracks)}
        /\ Ascending(genresOut[1])

\* C7 witness: genres() of an album in which one genre occurs twice and the
\* genres are not stored in ascending order.
C7_Witness ==
    /\ genresOut # None
    /\ Len(genresOut[1]) >= 2
    /\ Len(FlatGenres(galbum.tracks)) > Len(genresOut[1])
    /\ ~Ascending(genres_fold(<< >>, FlatGenres(galbum.tracks)))

\* The names of the audio files directly in d, in ascending order.
AudioNames(d) ==
    LET names == {f.name : f \in AudioFiles(d)}
    IN  CHOOSE s \in [1..Cardinality(names) -> names] : Range(s) = names /\ Ascending(s)

AllAudio == UNION {AudioFiles(d) : d \in dirs}

\* Each step hands at most one file to the extractor and reads tags at most
\* once, for that file: an extraction is over before the next one starts.
OneAtATime ==
    /\ Len(extracted') <= Len(extracted) + 1
    /\ tagReads' - tagReads <= Len(extracted') - Len(extracted)

\* C9 as stated: in a build that has returned, every audio file beneath the
\* root was handed to the extractor exactly once.
C9_ExactlyOnce ==
    pc = "done" => \A f \in AllAudio : Count(extracted, PathOf(f)) = 1

\* C9 as amended: every audio file is handed to the extractor at most once,
\* one at a time, and only if no audio file earlier in its directory failed;
\* when from_dir returns, exactly those files have been handed over once.
C9_AtMostOnce ==
    /\ [](/\ Range(extracted) \subseteq {PathOf(f) : f \in AllAudio}
          /\ \A f \in AllAudio :
                LET n == Count(extracted, PathOf(f))
                IN  /\ n <= 1
                    /\ n = 1 => ~EarlierFailure(f)
                    /\ pc = "done" /\ ~EarlierFailure(f) => n = 1)
    /\ [][OneAtATime]_vars

\* C9 witness: a build returned in which a file's extraction failed, a later
\* file of that directory was never extracted and another file was.
C9_Witness ==
    /\ pc = "done"
    /\ \E f \in AllAudio : EarlierFailure(f) /\ Count(extracted, PathOf(f)) = 0
    /\ \E f \in AllAudio : Extraction(f).kind = "Err" /\ Count(extracted, PathOf(f)) = 1

\* C10: a directory that directly holds an .opus, .m4a, .aac or .mp3 file
\* (any letter case) is never in the library.
C10_UnsupportedFileDropsAlbum ==
    \A d \in dirs :
        (\E f \in files : f.dir = d /\ HasExtIn(f.name, UnsupportedExts))
            => KeyOf(d) \notin DOMAIN albums

\* C10 witness: a build returned, a directory holds an MP3 file next
\* to a FLAC file that extracts, and is not in the library.
C10_Witness ==
    /\ pc = "done"
    /\ \E d \in dirs :
          /\ \E f \in files : f.dir = d /\ HasExtIn(f.name, UnsupportedExts)
          /\ \E f \in AudioFiles(d) : Extraction(f).kind = "Ok"
          /\ KeyOf(d) \notin DOMAIN albums

====
